---- MODULE Spec2Model ----
(***************************************************************************)
(* signingworker/worker.py: SigningConsumer.                               *)
(*                                                                         *)
(* Each worker instance is a single-threaded kombu consumer.  The broker   *)
(* hands it one message at a time; process_message claims the task run,    *)
(* fetches and validates the task, signs every file of the manifest,       *)
(* uploads the artifacts, reports completion and acknowledges the message. *)
(* The task-tracking service (taskcluster queue), the manifest host, the   *)
(* signing servers and the signing tool are the environment: each call's   *)
(* outcome is chosen nondeterministically among the outcomes the client    *)
(* libraries can produce.                                                  *)
(***************************************************************************)
EXTENDS Integers, Sequences, FiniteSets, TLC

(* ------------------------------ bounds --------------------------------- *)
\* longest signing manifest the manifest host returns
MaxEntries == 2
\* size of the configured signing-server pool
NumServers == 2
\* messages the broker delivers to a worker
MaxMsgs == 1

(* ------------------------- program constants --------------------------- *)
\* @redo.retriable(attempts=10, ...) on get_manifest
ManifestAttempts == 10
\* @redo.retriable(attempts=10, ...) on get_token
TokenAttempts == 10
\* the status code process_message treats as "already claimed"
Conflict == 409

(* ---------------------------- environment ------------------------------ *)
Workers == {"w1", "w2"}
Servers == 1..NumServers
None == "None"

\* message bodies: body["status"]["taskId"], body["status"]["runs"][..]["runId"]
NoStatus == [status |-> FALSE, taskId |-> None, runs |-> <<>>]
Bodies ==
  {NoStatus} \cup
  {[status |-> TRUE, taskId |-> "t1", runs |-> rs] : rs \in {<<>>, <<0>>, <<0, 1>>}}

\* the runs of the task-tracking service, <<taskId, runId>>
Runs == {<<"t1", 0>>, <<"t1", 1>>}

\* exceptions: the class name and, for a TaskclusterRestFailure, its status_code
Exc(type, status) == [type |-> type, status_code |-> status]
NoExc == Exc(None, 0)
RestFailure(status) == Exc("TaskclusterRestFailure", status)
\* what a call of the taskcluster client can raise
TcFailures == {RestFailure(Conflict), RestFailure(500), Exc("TaskclusterConnectionError", 0)}

\* the scopes of the worker's configuration and the tasks the service can return
SupportedScopes == {"project:signing:dep"}
Tasks ==
  [scopes : {{"project:signing:dep"}, {"project:signing:dep", "project:signing:release"}},
   payloadOk : BOOLEAN, taskGroupId : BOOLEAN]
NoTask == [scopes |-> {}, payloadOk |-> FALSE, taskGroupId |-> FALSE]

\* file contents, identified by name; their hash and size
get_hash(c) ==
  CASE c = "A" -> "abc123" [] c = "B" -> "def456"
    [] c = "A.signed" -> "aaa111" [] c = "B.signed" -> "bbb222" [] OTHER -> "none"
getsize(c) ==
  CASE c = "A" -> 10 [] c = "B" -> 20
    [] c = "A.signed" -> 11 [] c = "B.signed" -> 21 [] OTHER -> 0
\* what the signing tool leaves in place of the file it signs
Signed(c) == CASE c = "A" -> "A.signed" [] c = "B" -> "B.signed" [] OTHER -> c
Downloads == {"A", "B"}

\* manifest entries {"mar": ..., "hash": ..., "size": ...}
Entries ==
  {[mar |-> "a.mar", hash |-> "abc123", size |-> 10],
   [mar |-> "b.mar", hash |-> "def456", size |-> 20]}
\* the manifests of up to MaxEntries entries, up to the renaming of the two files
\* (a manifest that is not empty begins with a.mar)
Manifests ==
  {m \in UNION {[1..n -> Entries] : n \in 0..MaxEntries} :
     Len(m) = 0 \/ m[1].mar = "a.mar"}

\* permutations of a sequence
Perms(s) ==
  {p \in [1..Len(s) -> {s[i] : i \in 1..Len(s)}] :
     \A i, j \in 1..Len(s) : i # j => p[i] # p[j]}

\* what a signing server does with a token request
Answers == {"token", "empty", "http_error"}
\* in a pass over the servers in this order, answering as ans says: the first
\* answer that is not an empty body and its position; if there is none, the
\* kind "empty" and the length of the pass
NoHit == [kind |-> None, pos |-> 0]
FirstHit(order, ans) ==
  LET hits == {i \in 1..Len(order) : ans[order[i]] # "empty"} IN
    IF hits = {} THEN [kind |-> "empty", pos |-> Len(order)]
    ELSE LET p == CHOOSE i \in hits : \A j \in hits : i <= j
         IN [kind |-> ans[order[p]], pos |-> p]

VARIABLES
  published,        \* the bodies the broker can deliver
  budget,           \* deliveries left for each worker
  claimed,          \* task-tracking service: the owner of each run
  pc,               \* each worker's position in process_message
  body,             \* the body of the message being processed
  task_id, run_id,  \* process_message locals
  task,             \* the task fetched from the service
  signing_manifest, \* sign(): the manifest, updated in place
  idx,              \* sign(): position of the entry e in the manifest
  work_dirs,        \* the directories made by mkdtemp for this message
  manifest_file,    \* sign(): whether the mkstemp manifest file exists
  attempts,         \* redo.retriable: attempts made by the call in progress
  last_exc,         \* redo.retriable: the exception of the last attempt
  signing_servers,  \* self.signing_servers
  contacted,        \* get_token: the servers contacted in the last pass
  offered,          \* get_token: every pass so far had a server ready to give a token
  only_empty,       \* get_token: every answer of every pass so far was an empty body
  first_hit,        \* get_token: the first answer of the last pass that was not empty
  exc,              \* the exception caught by or propagated out of process_message
  fetched_manifest, \* the manifest as get_manifest returned it
  uploaded_manifest,\* the content uploaded as public/env/manifest.json
  log               \* the side effects of the message being processed, in order

vars ==
  <<published, budget, claimed, pc, body, task_id, run_id, task, signing_manifest,
    idx, work_dirs, manifest_file, attempts, last_exc, signing_servers, contacted,
    offered, only_empty, first_hit, exc, fetched_manifest, uploaded_manifest, log>>

\* one side effect of worker w: the operation, the run it names, the manifest
\* position it is for (0: none), its argument and its result ("ok" or the
\* exception's name)
Ev(w, op, i, arg, res) ==
  [op |-> op, run |-> <<task_id[w], run_id[w]>>, i |-> i, arg |-> arg, res |-> res]
ExcName(e) ==
  IF e.type = "TaskclusterRestFailure"
  THEN IF e.status_code = Conflict THEN "Rest409" ELSE "Rest5xx"
  ELSE e.type

(* ------------------------- pure parts of the code ---------------------- *)
\* body["status"]["taskId"], body["status"]["runs"][-1]["runId"]; the exception
\* the subscripts raise on a body that lacks them
ParseError(b) ==
  IF ~b.status THEN Exc("KeyError", 0)
  ELSE IF Len(b.runs) = 0 THEN Exc("IndexError", 0)
  ELSE NoExc
LastRunId(b) == b.runs[Len(b.runs)]

\* variants of the except clauses: a conflict returns without the ack; every
\* REST failure is re-raised; no REST failure is re-raised; a conflict is taken
\* for a granted claim; a verification error falls to the catch-all clause
ExceptTarget_NoAckOnConflict(e) ==
  IF e.type = "TaskclusterRestFailure"
  THEN IF e.status_code = Conflict THEN "returned" ELSE "raised"
  ELSE IF e.type \in {"TaskVerificationError", "ValidationError"}
       THEN "reportException"
       ELSE "ack"
ExceptTarget_RaiseConflict(e) ==
  IF e.type = "TaskclusterRestFailure" THEN "raised"
  ELSE IF e.type \in {"TaskVerificationError", "ValidationError"}
       THEN "reportException"
       ELSE "ack"
ExceptTarget_Swallow5xx(e) ==
  IF e.type \in {"TaskVerificationError", "ValidationError"}
  THEN "reportException"
  ELSE "ack"
ExceptTarget_IgnoreConflict(e) ==
  IF e.type = "TaskclusterRestFailure"
  THEN IF e.status_code = Conflict THEN "task" ELSE "raised"
  ELSE IF e.type \in {"TaskVerificationError", "ValidationError"}
       THEN "reportException"
       ELSE "ack"
ExceptTarget_VerificationUnreported(e) ==
  IF e.type = "TaskclusterRestFailure"
  THEN IF e.status_code = Conflict THEN "ack" ELSE "raised"
  ELSE "ack"

\* variant of the clauses: a conflict is reported as a failure of the task
ExceptTarget_ConflictReported(e) ==
  IF e.type = "TaskclusterRestFailure"
  THEN IF e.status_code = Conflict THEN "reportException" ELSE "raised"
  ELSE IF e.type \in {"TaskVerificationError", "ValidationError"}
       THEN "reportException"
       ELSE "ack"

\* variant of the clauses: every exception that is not a REST failure is
\* reported like a validation failure
ExceptTarget_ReportEverything(e) ==
  IF e.type = "TaskclusterRestFailure"
  THEN IF e.status_code = Conflict THEN "ack" ELSE "raised"
  ELSE "reportException"

\* the except clauses of process_message: where control goes with exception e
\* raised inside the try block
ExceptTarget(e) ==
  IF e.type = "TaskclusterRestFailure"
  THEN IF e.status_code = Conflict THEN "ack" ELSE "raised"
  ELSE IF e.type \in {"TaskVerificationError", "ValidationError"}
       THEN "reportException"
       ELSE "ack"

\* variant: an exception raised inside an except clause is handled by the
\* clauses of the same try statement
RaisedInHandler_Dispatch(e) == ExceptTarget(e)
\* where control goes with exception e raised inside an except clause: the
\* clauses of the try statement do not apply, e leaves process_message
RaisedInHandler(e) == "raised"

\* variants of the order of the statements: the file uploaded before it is
\* signed; the manifest fetched without validating the task
Then_UploadBeforeSign(step) ==
  CASE step = "claimTask" -> "task"
    [] step = "task" -> "validate_task"
    [] step = "validate_task" -> "get_manifest"
    [] step = "checksum" -> "createArtifact"
    [] step = "putFile" -> "get_token"
    [] step = "get_token" -> "signtool"
    [] step = "signtool" -> "update_entry"
    [] step = "sign" -> "reportCompleted"
    [] step = "reportCompleted" -> "ack"
    [] step = "reportException" -> "ack"
    [] OTHER -> "raised"
Then_SkipValidation(step) ==
  CASE step = "claimTask" -> "task"
    [] step = "task" -> "get_manifest"
    [] step = "validate_task" -> "get_manifest"
    [] step = "checksum" -> "get_token"
    [] step = "get_token" -> "signtool"
    [] step = "signtool" -> "createArtifact"
    [] step = "putFile" -> "update_entry"
    [] step = "sign" -> "reportCompleted"
    [] step = "reportCompleted" -> "ack"
    [] step = "reportException" -> "ack"
    [] OTHER -> "raised"

\* variant of the order of the statements: the signing tool runs without a
\* call of get_token before it
Then_SkipToken(step) ==
  CASE step = "claimTask" -> "task"
    [] step = "task" -> "validate_task"
    [] step = "validate_task" -> "get_manifest"
    [] step = "checksum" -> "signtool"
    [] step = "get_token" -> "signtool"
    [] step = "signtool" -> "createArtifact"
    [] step = "putFile" -> "update_entry"
    [] step = "sign" -> "reportCompleted"
    [] step = "reportCompleted" -> "ack"
    [] step = "reportException" -> "ack"
    [] OTHER -> "raised"

\* the statement that follows a statement that completed, in process_message,
\* download_and_sign_file and sign_file
Then(step) ==
  CASE step = "claimTask" -> "task"
    [] step = "task" -> "validate_task"
    [] step = "validate_task" -> "get_manifest"
    [] step = "checksum" -> "get_token"
    [] step = "get_token" -> "signtool"
    [] step = "signtool" -> "createArtifact"
    [] step = "putFile" -> "update_entry"
    [] step = "sign" -> "reportCompleted"
    [] step = "reportCompleted" -> "ack"
    [] step = "reportException" -> "ack"
    [] OTHER -> "raised"

\* signingworker.task.validate_task: the exception it raises, NoExc if none
validate_task(t, supported) ==
  IF ~(t.scopes \subseteq supported) THEN Exc("TaskVerificationError", 0)
  ELSE IF ~t.payloadOk THEN Exc("ValidationError", 0)
  ELSE NoExc

\* variants of the retry rule: one attempt fewer, one attempt more
RetryAgain_OneShort(n, max) == n + 1 < max
RetryAgain_OneMore(n, max) == n <= max
\* redo.retriable: after attempt number n of max failed, retry or give up
RetryAgain(n, max) == n < max

\* variant of the loop: a server that answers with an error is passed over
\* like one that answers with an empty body
RECURSIVE TokenPass_SkipErrors(_, _, _)
TokenPass_SkipErrors(order, ans, i) ==
  IF i > Len(order)
  THEN [contacted |-> order, result |-> "SigningServerError"]
  ELSE CASE ans[order[i]] = "token" ->
              [contacted |-> SubSeq(order, 1, i), result |-> "token"]
         [] OTHER -> TokenPass_SkipErrors(order, ans, i + 1)

\* the loop of get_token over the shuffled servers, from position i on:
\* the servers contacted and how the pass ends
RECURSIVE TokenPass(_, _, _)
TokenPass(order, ans, i) ==
  IF i > Len(order)
  THEN [contacted |-> order, result |-> "SigningServerError"]
  ELSE CASE ans[order[i]] = "token" ->
              [contacted |-> SubSeq(order, 1, i), result |-> "token"]
         [] ans[order[i]] = "http_error" ->
              [contacted |-> SubSeq(order, 1, i), result |-> "HTTPError"]
         [] OTHER -> TokenPass(order, ans, i + 1)

\* the artifact names of create_artifact's callers
FileArtifact(filename) == "public/env/" \o filename
ManifestArtifact == "public/env/manifest.json"

\* variant of the loop bound: the last entry is left out
InLoop_OffByOne(w) == idx[w] >= 1 /\ idx[w] < Len(signing_manifest[w])

\* the entry e of the loop in sign(), and whether the loop is over
InLoop(w) == idx[w] >= 1 /\ idx[w] <= Len(signing_manifest[w])
Entry(w) == signing_manifest[w][idx[w]]
\* the working directory of the entry being processed
CurDir(w) == Len(work_dirs[w])

(* ------------------------------ initial state -------------------------- *)
\* what a delivery resets: the locals of process_message and the record of
\* the message's side effects
Fresh(w) ==
  /\ task_id' = [task_id EXCEPT ![w] = None]
  /\ run_id' = [run_id EXCEPT ![w] = -1]
  /\ task' = [task EXCEPT ![w] = NoTask]
  /\ signing_manifest' = [signing_manifest EXCEPT ![w] = <<>>]
  /\ idx' = [idx EXCEPT ![w] = 0]
  /\ work_dirs' = [work_dirs EXCEPT ![w] = <<>>]
  /\ manifest_file' = [manifest_file EXCEPT ![w] = FALSE]
  /\ attempts' = [attempts EXCEPT ![w] = 0]
  /\ last_exc' = [last_exc EXCEPT ![w] = NoExc]
  /\ contacted' = [contacted EXCEPT ![w] = <<>>]
  /\ offered' = [offered EXCEPT ![w] = TRUE]
  /\ only_empty' = [only_empty EXCEPT ![w] = TRUE]
  /\ first_hit' = [first_hit EXCEPT ![w] = NoHit]
  /\ exc' = [exc EXCEPT ![w] = NoExc]
  /\ fetched_manifest' = [fetched_manifest EXCEPT ![w] = <<>>]
  /\ uploaded_manifest' = [uploaded_manifest EXCEPT ![w] = <<>>]
  /\ log' = [log EXCEPT ![w] = <<>>]

\* SigningConsumer.__init__ for every worker, nothing delivered yet
InitWorkers ==
  /\ pc = [w \in Workers |-> "idle"]
  /\ body = [w \in Workers |-> NoStatus]
  /\ task_id = [w \in Workers |-> None]
  /\ run_id = [w \in Workers |-> -1]
  /\ task = [w \in Workers |-> NoTask]
  /\ signing_manifest = [w \in Workers |-> <<>>]
  /\ idx = [w \in Workers |-> 0]
  /\ work_dirs = [w \in Workers |-> <<>>]
  /\ manifest_file = [w \in Workers |-> FALSE]
  /\ attempts = [w \in Workers |-> 0]
  /\ last_exc = [w \in Workers |-> NoExc]
  /\ signing_servers = [w \in Workers |-> [i \in 1..NumServers |-> i]]
  /\ contacted = [w \in Workers |-> <<>>]
  /\ offered = [w \in Workers |-> TRUE]
  /\ only_empty = [w \in Workers |-> TRUE]
  /\ first_hit = [w \in Workers |-> NoHit]
  /\ exc = [w \in Workers |-> NoExc]
  /\ fetched_manifest = [w \in Workers |-> <<>>]
  /\ uploaded_manifest = [w \in Workers |-> <<>>]
  /\ log = [w \in Workers |-> <<>>]

\* one worker; any body can be delivered to it; the runs are unclaimed, or
\* already owned by a worker of another process
Init ==
  /\ InitWorkers
  /\ published = Bodies
  /\ budget = [w \in Workers |-> IF w = "w1" THEN MaxMsgs ELSE 0]
  /\ claimed \in {[r \in Runs |-> o] : o \in {None, "other"}}

\* several workers, each delivered the message of the same unclaimed run
TheRun == <<"t1", 0>>
InitMulti ==
  /\ InitWorkers
  /\ published = {[status |-> TRUE, taskId |-> "t1", runs |-> <<0>>]}
  /\ budget = [w \in Workers |-> 1]
  /\ claimed = [r \in Runs |-> None]

(* ------------------------- steps of process_message -------------------- *)
\* control leaves the try block with exception e; ev records the failed step
Caught(w, e, ev) ==
  /\ exc' = [exc EXCEPT ![w] = e]
  /\ pc' = [pc EXCEPT ![w] = ExceptTarget(e)]
  /\ log' = [log EXCEPT ![w] = Append(@, ev)]

\* the step succeeded: record it and go on at p
Goto(w, p, ev) ==
  /\ pc' = [pc EXCEPT ![w] = p]
  /\ log' = [log EXCEPT ![w] = Append(@, ev)]
  /\ UNCHANGED exc

\* the broker calls the callback process_message(body, message)
Deliver(w) ==
  /\ pc[w] \in {"idle", "returned"}
  /\ budget[w] > 0
  /\ \E b \in published : body' = [body EXCEPT ![w] = b]
  /\ budget' = [budget EXCEPT ![w] = @ - 1]
  /\ Fresh(w)
  /\ pc' = [pc EXCEPT ![w] = "parse_body"]
  /\ UNCHANGED <<published, claimed, signing_servers>>

\* task_id = body["status"]["taskId"]; run_id = body["status"]["runs"][-1]["runId"]
ParseBody(w) ==
  /\ pc[w] = "parse_body"
  /\ IF ParseError(body[w]) # NoExc
     THEN /\ exc' = [exc EXCEPT ![w] = ParseError(body[w])]
          /\ pc' = [pc EXCEPT ![w] = ExceptTarget(ParseError(body[w]))]
          /\ task_id' = [task_id EXCEPT ![w] =
                           IF body[w].status THEN body[w].taskId ELSE None]
          /\ UNCHANGED run_id
     ELSE /\ task_id' = [task_id EXCEPT ![w] = body[w].taskId]
          /\ run_id' = [run_id EXCEPT ![w] = LastRunId(body[w])]
          /\ pc' = [pc EXCEPT ![w] = "claimTask"]
          /\ UNCHANGED exc
  /\ UNCHANGED <<published, budget, claimed, body, task, signing_manifest, idx,
                 work_dirs, manifest_file, attempts, last_exc, signing_servers,
                 contacted, first_hit, offered, only_empty, fetched_manifest, uploaded_manifest, log>>

\* the answers of the service to claimTask for run r: granted once, a conflict
\* afterwards, or a failure of the service or of the connection
ClaimAnswers(r) ==
  (IF claimed[r] = None THEN {NoExc} ELSE {RestFailure(Conflict)})
    \cup {RestFailure(500), Exc("TaskclusterConnectionError", 0)}

\* self.tc_queue.claimTask(task_id, run_id, {...})
ClaimTask(w) ==
  /\ pc[w] = "claimTask"
  /\ \E a \in ClaimAnswers(<<task_id[w], run_id[w]>>) :
       IF a = NoExc
       THEN /\ claimed' = [claimed EXCEPT ![<<task_id[w], run_id[w]>>] = w]
            /\ Goto(w, Then("claimTask"), Ev(w, "claimTask", 0, task_id[w], "ok"))
       ELSE /\ Caught(w, a, Ev(w, "claimTask", 0, task_id[w], ExcName(a)))
            /\ UNCHANGED claimed
  /\ UNCHANGED <<published, budget, body, task_id, run_id, task, signing_manifest,
                 idx, work_dirs, manifest_file, attempts, last_exc, signing_servers,
                 contacted, first_hit, offered, only_empty, fetched_manifest, uploaded_manifest>>

\* task = self.tc_queue.task(task_id); task_graph_id = task["taskGroupId"]
FetchTask(w) ==
  /\ pc[w] = "task"
  /\ \/ \E t \in Tasks :
          /\ task' = [task EXCEPT ![w] = t]
          /\ IF t.taskGroupId
             THEN Goto(w, Then("task"), Ev(w, "task", 0, task_id[w], "ok"))
             ELSE Caught(w, Exc("KeyError", 0), Ev(w, "task", 0, task_id[w], "ok"))
     \/ \E a \in TcFailures :
          /\ Caught(w, a, Ev(w, "task", 0, task_id[w], ExcName(a)))
          /\ UNCHANGED task
  /\ UNCHANGED <<published, budget, claimed, body, task_id, run_id, signing_manifest,
                 idx, work_dirs, manifest_file, attempts, last_exc, signing_servers,
                 contacted, first_hit, offered, only_empty, fetched_manifest, uploaded_manifest>>

\* validate_task(task, self.supported_signing_scopes)
ValidateTask(w) ==
  /\ pc[w] = "validate_task"
  /\ LET e == validate_task(task[w], SupportedScopes) IN
       IF e = NoExc
       THEN Goto(w, Then("validate_task"), Ev(w, "validate_task", 0, task_id[w], "ok"))
       ELSE Caught(w, e, Ev(w, "validate_task", 0, task_id[w], ExcName(e)))
  /\ UNCHANGED <<published, budget, claimed, body, task_id, run_id, task,
                 signing_manifest, idx, work_dirs, manifest_file, attempts, last_exc,
                 signing_servers, contacted, first_hit, offered, only_empty, fetched_manifest,
                 uploaded_manifest>>

(* ------------------------------ sign() --------------------------------- *)
\* one attempt of the retried get_manifest(manifest_url): requests.get,
\* raise_for_status, r.json()
GetManifest(w) ==
  /\ pc[w] = "get_manifest"
  /\ attempts' = [attempts EXCEPT ![w] = @ + 1]
  /\ \/ \E m \in Manifests :
          /\ signing_manifest' = [signing_manifest EXCEPT ![w] = m]
          /\ fetched_manifest' = [fetched_manifest EXCEPT ![w] = m]
          /\ idx' = [idx EXCEPT ![w] = 1]
          /\ Goto(w, "sign_loop", Ev(w, "get_manifest", 0, "manifest.json", "ok"))
          /\ UNCHANGED last_exc
     \/ \E e \in {Exc("HTTPError", 0), Exc("ConnectionError", 0)} :
          /\ last_exc' = [last_exc EXCEPT ![w] = e]
          /\ IF RetryAgain(attempts[w] + 1, ManifestAttempts)
             THEN UNCHANGED <<pc, exc, log>>
             ELSE Caught(w, e, Ev(w, "get_manifest", 0, "manifest.json", ExcName(e)))
          /\ UNCHANGED <<signing_manifest, fetched_manifest, idx>>
  /\ UNCHANGED <<published, budget, claimed, body, task_id, run_id, task, work_dirs,
                 manifest_file, signing_servers, contacted, first_hit, offered, only_empty,
                 uploaded_manifest>>

\* for e in signing_manifest: the next entry, or the end of the loop
NextEntry(w) ==
  /\ pc[w] = "sign_loop"
  /\ pc' = [pc EXCEPT ![w] = IF InLoop(w) THEN "download" ELSE "dump_manifest"]
  /\ attempts' = [attempts EXCEPT ![w] = 0]
  /\ last_exc' = [last_exc EXCEPT ![w] = NoExc]
  /\ UNCHANGED <<published, budget, claimed, body, task_id, run_id, task,
                 signing_manifest, idx, work_dirs, manifest_file, signing_servers,
                 contacted, first_hit, offered, only_empty, exc, fetched_manifest, uploaded_manifest, log>>

\* download_and_sign_file: work_dir = tempfile.mkdtemp(); requests.get(url);
\* raise_for_status; the body written to abs_filename
Download(w) ==
  /\ pc[w] = "download"
  /\ \/ \E c \in Downloads :
          /\ work_dirs' = [work_dirs EXCEPT ![w] =
                             Append(@, [exists |-> TRUE, file |-> c, token |-> FALSE])]
          /\ Goto(w, "checksum", Ev(w, "download", idx[w], Entry(w).mar, "ok"))
     \/ \E e \in {Exc("HTTPError", 0), Exc("ConnectionError", 0)} :
          /\ work_dirs' = [work_dirs EXCEPT ![w] =
                             Append(@, [exists |-> TRUE, file |-> None, token |-> FALSE])]
          /\ Caught(w, e, Ev(w, "download", idx[w], Entry(w).mar, ExcName(e)))
  /\ UNCHANGED <<published, budget, claimed, body, task_id, run_id, task,
                 signing_manifest, idx, manifest_file, attempts, last_exc,
                 signing_servers, contacted, first_hit, offered, only_empty, fetched_manifest,
                 uploaded_manifest>>

\* variant of the comparison: any checksum that could be computed passes
ChecksumMatches_Always(got, checksum) == got # "none"

\* got_checksum = get_hash(abs_filename); if not got_checksum == checksum
ChecksumMatches(got, checksum) == got = checksum

\* variant of the cleanup: the directory is left behind
rmtree_Keep(dir) == dir
\* shutil.rmtree(work_dir)
rmtree(dir) == [dir EXCEPT !.exists = FALSE]

\* the comparison; on a mismatch shutil.rmtree(work_dir) and ChecksumMismatchError
VerifyChecksum(w) ==
  /\ pc[w] = "checksum"
  /\ LET got_checksum == get_hash(work_dirs[w][CurDir(w)].file) IN
       IF ChecksumMatches(got_checksum, Entry(w).hash)
       THEN /\ Goto(w, Then("checksum"), Ev(w, "checksum", idx[w], got_checksum, "ok"))
            /\ UNCHANGED work_dirs
       ELSE /\ work_dirs' = [work_dirs EXCEPT ![w][CurDir(w)] = rmtree(@)]
            /\ Caught(w, Exc("ChecksumMismatchError", 0),
                      Ev(w, "checksum", idx[w], got_checksum, "ChecksumMismatchError"))
  /\ attempts' = [attempts EXCEPT ![w] = 0]
  /\ last_exc' = [last_exc EXCEPT ![w] = NoExc]
  /\ contacted' = [contacted EXCEPT ![w] = <<>>]
  /\ first_hit' = [first_hit EXCEPT ![w] = NoHit]
  /\ offered' = [offered EXCEPT ![w] = TRUE]
  /\ only_empty' = [only_empty EXCEPT ![w] = TRUE]
  /\ UNCHANGED <<published, budget, claimed, body, task_id, run_id, task,
                 signing_manifest, idx, manifest_file, signing_servers,
                 fetched_manifest, uploaded_manifest>>

\* the exception of a pass that got no token
PassExc(result) == Exc(result, 0)

\* an attempt of the retried get_token(token) begins:
\* random.shuffle(self.signing_servers), in place
Shuffle(w) ==
  /\ pc[w] = "get_token"
  /\ \E order \in Perms(signing_servers[w]) :
       signing_servers' = [signing_servers EXCEPT ![w] = order]
  /\ contacted' = [contacted EXCEPT ![w] = <<>>]
  /\ first_hit' = [first_hit EXCEPT ![w] = NoHit]
  /\ pc' = [pc EXCEPT ![w] = "token_loop"]
  /\ UNCHANGED <<published, budget, claimed, body, task_id, run_id, task,
                 signing_manifest, idx, work_dirs, manifest_file, attempts, last_exc,
                 offered, only_empty, exc, fetched_manifest, uploaded_manifest, log>>

\* the rest of the attempt: the pass over the servers, each answering as ans
\* says, and the token written to the file; a failed attempt is retried or,
\* if it was the last one, its exception leaves get_token
RequestToken(w) ==
  /\ pc[w] = "token_loop"
  /\ \E ans \in [Servers -> Answers] :
       LET pass == TokenPass(signing_servers[w], ans, 1) IN
         /\ contacted' = [contacted EXCEPT ![w] = pass.contacted]
         /\ offered' = [offered EXCEPT ![w] = @ /\ (\E s \in Servers : ans[s] = "token")]
         /\ only_empty' = [only_empty EXCEPT ![w] = @ /\ (\A s \in Servers : ans[s] = "empty")]
         /\ first_hit' = [first_hit EXCEPT ![w] = FirstHit(signing_servers[w], ans)]
         /\ attempts' = [attempts EXCEPT ![w] = @ + 1]
         /\ IF pass.result = "token"
            THEN /\ work_dirs' = [work_dirs EXCEPT ![w][CurDir(w)].token = TRUE]
                 /\ Goto(w, Then("get_token"), Ev(w, "get_token", idx[w], Entry(w).mar, "ok"))
                 /\ UNCHANGED last_exc
            ELSE /\ last_exc' = [last_exc EXCEPT ![w] = PassExc(pass.result)]
                 /\ IF RetryAgain(attempts[w] + 1, TokenAttempts)
                    THEN /\ pc' = [pc EXCEPT ![w] = "get_token"]
                         /\ UNCHANGED <<exc, log>>
                    ELSE Caught(w, PassExc(pass.result),
                                Ev(w, "get_token", idx[w], Entry(w).mar, pass.result))
                 /\ UNCHANGED work_dirs
  /\ UNCHANGED <<published, budget, claimed, body, task_id, run_id, task,
                 signing_manifest, idx, manifest_file, signing_servers,
                 fetched_manifest, uploaded_manifest>>

\* sign_file after get_token: sh.python(signtool, ...), which signs the file in
\* place or exits non-zero
SignTool(w) ==
  /\ pc[w] = "signtool"
  /\ \/ /\ work_dirs' = [work_dirs EXCEPT ![w][CurDir(w)].file = Signed(@)]
        /\ Goto(w, Then("signtool"), Ev(w, "signtool", idx[w], Entry(w).mar, "ok"))
     \/ /\ Caught(w, Exc("ErrorReturnCode", 0),
                  Ev(w, "signtool", idx[w], Entry(w).mar, "ErrorReturnCode"))
        /\ UNCHANGED work_dirs
  /\ attempts' = [attempts EXCEPT ![w] = 0]
  /\ last_exc' = [last_exc EXCEPT ![w] = NoExc]
  /\ contacted' = [contacted EXCEPT ![w] = <<>>]
  /\ first_hit' = [first_hit EXCEPT ![w] = NoHit]
  /\ UNCHANGED <<published, budget, claimed, body, task_id, run_id, task,
                 signing_manifest, idx, manifest_file, signing_servers, offered, only_empty,
                 fetched_manifest, uploaded_manifest>>

(* --------------------------- create_artifact --------------------------- *)
\* the artifact being uploaded: the entry's file inside the loop, the manifest
\* after it
Dest(w) == IF InLoop(w) THEN FileArtifact(Entry(w).mar) ELSE ManifestArtifact

\* res = self.tc_queue.createArtifact(task_id, run_id, dest, {...})
CreateArtifact(w) ==
  /\ pc[w] = "createArtifact"
  /\ \/ Goto(w, "putFile", Ev(w, "createArtifact", idx[w], Dest(w), "ok"))
     \/ \E a \in TcFailures :
          Caught(w, a, Ev(w, "createArtifact", idx[w], Dest(w), ExcName(a)))
  /\ UNCHANGED <<published, budget, claimed, body, task_id, run_id, task,
                 signing_manifest, idx, work_dirs, manifest_file, attempts, last_exc,
                 signing_servers, contacted, first_hit, offered, only_empty, fetched_manifest,
                 uploaded_manifest>>

\* taskcluster.utils.putFile(abs_filename, put_url, content_type)
PutFile(w) ==
  /\ pc[w] = "putFile"
  /\ \/ /\ Goto(w, IF InLoop(w) THEN Then("putFile") ELSE Then("sign"),
                Ev(w, "putFile", idx[w], Dest(w), "ok"))
        /\ uploaded_manifest' =
             [uploaded_manifest EXCEPT ![w] = IF InLoop(w) THEN @ ELSE signing_manifest[w]]
     \/ /\ \E e \in {Exc("HTTPError", 0), Exc("ConnectionError", 0)} :
             Caught(w, e, Ev(w, "putFile", idx[w], Dest(w), ExcName(e)))
        /\ UNCHANGED uploaded_manifest
  /\ UNCHANGED <<published, budget, claimed, body, task_id, run_id, task,
                 signing_manifest, idx, work_dirs, manifest_file, attempts, last_exc,
                 signing_servers, contacted, first_hit, offered, only_empty, fetched_manifest>>

\* variant of the update: the size is left as fetched
UpdatedEntry_HashOnly(e, content) == [e EXCEPT !.hash = get_hash(content)]
\* e["hash"] = get_hash(abs_filename); e["size"] = os.path.getsize(abs_filename)
UpdatedEntry(e, content) == [e EXCEPT !.hash = get_hash(content), !.size = getsize(content)]

\* back in sign() with abs_filename: the entry updated, the loop goes on
UpdateEntry(w) ==
  /\ pc[w] = "update_entry"
  /\ signing_manifest' =
       [signing_manifest EXCEPT ![w][idx[w]] =
          UpdatedEntry(@, work_dirs[w][CurDir(w)].file)]
  /\ idx' = [idx EXCEPT ![w] = @ + 1]
  /\ pc' = [pc EXCEPT ![w] = "sign_loop"]
  /\ UNCHANGED <<published, budget, claimed, body, task_id, run_id, task, work_dirs,
                 manifest_file, attempts, last_exc, signing_servers, contacted, first_hit,
                 offered, only_empty, exc, fetched_manifest, uploaded_manifest, log>>

\* _, manifest_file = tempfile.mkstemp(); json.dump(signing_manifest, f, ...)
WriteManifest(w) ==
  /\ pc[w] = "dump_manifest"
  /\ manifest_file' = [manifest_file EXCEPT ![w] = TRUE]
  /\ pc' = [pc EXCEPT ![w] = "createArtifact"]
  /\ UNCHANGED <<published, budget, claimed, body, task_id, run_id, task,
                 signing_manifest, idx, work_dirs, attempts, last_exc,
                 signing_servers, contacted, first_hit, offered, only_empty, exc, fetched_manifest,
                 uploaded_manifest, log>>

(* ------------------ the end of process_message ------------------------- *)
\* self.tc_queue.reportCompleted(task_id, run_id), inside the try block
ReportCompleted(w) ==
  /\ pc[w] = "reportCompleted"
  /\ \/ Goto(w, Then("reportCompleted"), Ev(w, "reportCompleted", 0, "completed", "ok"))
     \/ \E a \in TcFailures :
          Caught(w, a, Ev(w, "reportCompleted", 0, "completed", ExcName(a)))
  /\ UNCHANGED <<published, budget, claimed, body, task_id, run_id, task,
                 signing_manifest, idx, work_dirs, manifest_file, attempts, last_exc,
                 signing_servers, contacted, first_hit, offered, only_empty, fetched_manifest,
                 uploaded_manifest>>

\* the reason process_message reports for a task that fails validation
Reason == "malformed-payload"

\* self.tc_queue.reportException(task_id, run_id, {"reason": ...}), inside the
\* except clause: what it raises leaves process_message
ReportException(w) ==
  /\ pc[w] = "reportException"
  /\ \/ Goto(w, Then("reportException"), Ev(w, "reportException", 0, Reason, "ok"))
     \/ \E a \in TcFailures :
          /\ exc' = [exc EXCEPT ![w] = a]
          /\ pc' = [pc EXCEPT ![w] = RaisedInHandler(a)]
          /\ log' = [log EXCEPT ![w] =
                       Append(@, Ev(w, "reportException", 0, Reason, ExcName(a)))]
  /\ UNCHANGED <<published, budget, claimed, body, task_id, run_id, task,
                 signing_manifest, idx, work_dirs, manifest_file, attempts, last_exc,
                 signing_servers, contacted, first_hit, offered, only_empty, fetched_manifest,
                 uploaded_manifest>>

\* message.ack(), then process_message returns to the consumer
Ack(w) ==
  /\ pc[w] = "ack"
  /\ pc' = [pc EXCEPT ![w] = "returned"]
  /\ log' = [log EXCEPT ![w] = Append(@, Ev(w, "ack", 0, "message", "ok"))]
  /\ UNCHANGED <<published, budget, claimed, body, task_id, run_id, task,
                 signing_manifest, idx, work_dirs, manifest_file, attempts, last_exc,
                 signing_servers, contacted, first_hit, offered, only_empty, exc, fetched_manifest,
                 uploaded_manifest>>

Next ==
  \E w \in Workers :
    \/ Deliver(w) \/ ParseBody(w) \/ ClaimTask(w) \/ FetchTask(w) \/ ValidateTask(w)
    \/ GetManifest(w) \/ NextEntry(w) \/ Download(w) \/ VerifyChecksum(w)
    \/ Shuffle(w) \/ RequestToken(w) \/ SignTool(w) \/ CreateArtifact(w) \/ PutFile(w)
    \/ UpdateEntry(w) \/ WriteManifest(w) \/ ReportCompleted(w)
    \/ ReportException(w) \/ Ack(w)

Spec == Init /\ [][Next]_vars
SpecMulti == InitMulti /\ [][Next]_vars

(* ------------------------ reading the record --------------------------- *)
\* the positions of worker w's record that hold operation op
At(w, op) == {k \in 1..Len(log[w]) : log[w][k].op = op}
Called(w, op) == At(w, op) # {}
Times(w, op) == Cardinality(At(w, op))
\* the calls of the task-tracking client
TcOps == {"claimTask", "task", "createArtifact", "reportCompleted", "reportException"}
\* the work of sign() and its callees
SignOps == {"get_manifest", "download", "checksum", "get_token", "signtool",
            "createArtifact", "putFile"}
\* the call of op that failed with result res, if any
Failed(w, op, res) == \E k \in At(w, op) : log[w][k].res = res
\* the record without the acknowledgement
Work(w) == SelectSeq(log[w], LAMBDA e : e.op # "ack")

(* ------------------------------- C1 ------------------------------------ *)
\* C1: whenever process_message has returned to the consumer, the message has
\* been acknowledged exactly once, the acknowledgement is the last effect of
\* the message (it follows every task-tracking call), and the message was
\* never rejected or requeued.
C1_AckedOnceOnReturn ==
  \A w \in Workers :
    pc[w] = "returned" =>
      /\ Times(w, "ack") = 1
      /\ log[w][Len(log[w])].op = "ack"
      /\ \A k \in 1..Len(log[w]) : log[w][k].op \notin {"reject", "requeue"}

\* a message whose processing failed after the claim, acknowledged all the same
C1_Witness ==
  \E w \in Workers :
    /\ pc[w] = "returned"
    /\ exc[w].type = "ChecksumMismatchError"
    /\ Failed(w, "claimTask", "ok")

(* ------------------------------- C2 ------------------------------------ *)
\* C2: once claimTask has failed with 409, the claim is the only thing the
\* worker has done for the message besides acknowledging it: no other
\* task-tracking call, no manifest fetch, download, token request or signing;
\* no exception leaves process_message; the worker is about to acknowledge
\* the message or has done so.
C2_ConflictDropsJob ==
  \A w \in Workers :
    Failed(w, "claimTask", "Rest409") =>
      /\ Len(Work(w)) = 1
      /\ \A op \in (TcOps \cup SignOps) \ {"claimTask"} : ~Called(w, op)
      /\ pc[w] \in {"ack", "returned"}
      /\ pc[w] = "returned" => Times(w, "ack") = 1

\* a conflict on the claim, the message acknowledged
C2_Witness ==
  \E w \in Workers :
    /\ Failed(w, "claimTask", "Rest409")
    /\ pc[w] = "returned"
    /\ claimed[<<task_id[w], run_id[w]>>] = "other"

(* ------------------------------- C3 ------------------------------------ *)
\* C3 as stated: once a task-tracking call has failed with a REST failure
\* other than 409, the failure has left process_message, the message is not
\* acknowledged, and neither reportCompleted nor reportException has been
\* called for the message.
C3_Original ==
  \A w \in Workers :
    (\E op \in TcOps : Failed(w, op, "Rest5xx")) =>
      /\ pc[w] = "raised"
      /\ ~Called(w, "ack")
      /\ ~Called(w, "reportCompleted")
      /\ ~Called(w, "reportException")

\* C3 as amended: once a task-tracking call has failed with a REST failure
\* other than 409, the failure has left process_message, the message is not
\* acknowledged, the failed call is the last effect of the message, and no
\* reportCompleted or reportException call has succeeded (the failed call may
\* itself be reportCompleted or reportException).
C3_FatalRestFailure ==
  \A w \in Workers :
    (\E op \in TcOps : Failed(w, op, "Rest5xx")) =>
      /\ pc[w] = "raised"
      /\ exc[w] = RestFailure(500)
      /\ ~Called(w, "ack")
      /\ log[w][Len(log[w])].res = "Rest5xx"
      /\ ~Failed(w, "reportCompleted", "ok")
      /\ ~Failed(w, "reportException", "ok")

\* a createArtifact that failed with 500 after the claim and a signed file
C3_Witness ==
  \E w \in Workers :
    /\ Failed(w, "createArtifact", "Rest5xx")
    /\ Failed(w, "signtool", "ok")
    /\ pc[w] = "raised"

(* ------------------------------- C4 ------------------------------------ *)
\* the workers that did work reserved to the owner of run r
Owners(r) ==
  {w \in Workers :
     \E k \in 1..Len(log[w]) :
       /\ log[w][k].run = r
       /\ log[w][k].op \in {"get_manifest", "createArtifact", "reportCompleted"}}
\* the workers whose claim of run r was granted
Granted(r) ==
  {w \in Workers :
     \E k \in At(w, "claimTask") : log[w][k].run = r /\ log[w][k].res = "ok"}

\* C4: with several workers delivered the message of the same run and a service
\* that grants the claim once and answers 409 afterwards, at most one worker's
\* claim is granted and at most one worker fetches the manifest, creates an
\* artifact or reports completion for the run; every artifact creation of a
\* worker follows that worker's own granted claim of the run; and a worker
\* whose claim met the conflict has done nothing else for the message and
\* acknowledges it.
C4_OneOwnerPerRun ==
  /\ Cardinality(Granted(TheRun)) <= 1
  /\ Cardinality(Owners(TheRun)) <= 1
  /\ Owners(TheRun) \subseteq Granted(TheRun)
  /\ \A w \in Workers :
       /\ \A k \in At(w, "createArtifact") :
            \E j \in 1..(k - 1) :
              /\ log[w][j].op = "claimTask"
              /\ log[w][j].res = "ok"
              /\ log[w][j].run = log[w][k].run
       /\ Failed(w, "claimTask", "Rest409") =>
            /\ Len(Work(w)) = 1
            /\ pc[w] \in {"ack", "returned"}
            /\ pc[w] = "returned" => Times(w, "ack") = 1

\* one worker has completed the run while another, delivered the same message
\* in the meantime, met the conflict and acknowledged
C4_Witness ==
  \E w, v \in Workers :
    /\ w # v
    /\ Failed(w, "reportCompleted", "ok")
    /\ Failed(w, "createArtifact", "ok")
    /\ log[w][1].run = TheRun
    /\ Failed(v, "claimTask", "Rest409")
    /\ log[v][1].run = TheRun
    /\ pc[v] = "returned"
    /\ pc[w] = "returned"

(* ------------------------------- C5 ------------------------------------ *)
\* the effects of a message that belong to the chain of C5: all but the
\* acknowledgement and the report of an exception
Chain(w) == SelectSeq(log[w], LAMBDA e : e.op \notin {"ack", "reportException"})

\* the chain of a task whose manifest has n entries, as <<operation, position>>
RECURSIVE EntrySteps(_)
EntrySteps(n) ==
  IF n = 0 THEN <<>>
  ELSE EntrySteps(n - 1) \o
       << <<"download", n>>, <<"checksum", n>>, <<"get_token", n>>,
          <<"signtool", n>>, <<"createArtifact", n>>, <<"putFile", n>> >>
FullChain(n) ==
  << <<"claimTask", 0>>, <<"task", 0>>, <<"validate_task", 0>>, <<"get_manifest", 0>> >>
    \o EntrySteps(n)
    \o << <<"createArtifact", n + 1>>, <<"putFile", n + 1>>, <<"reportCompleted", 0>> >>

\* C5: the effects of a message occur in the order claimTask, task fetch,
\* validation, manifest fetch, then for each entry in manifest order download,
\* checksum verification, token request, signing tool, artifact upload, then
\* the manifest artifact upload, then reportCompleted; and a step is executed
\* only if every earlier step of the chain succeeded.
C5_FixedOrder ==
  \A w \in Workers :
    LET c == Chain(w)
        full == FullChain(Len(fetched_manifest[w]))
    IN /\ Len(c) <= Len(full)
       /\ \A k \in 1..Len(c) :
            /\ <<c[k].op, c[k].i>> = full[k]
            /\ k < Len(c) => c[k].res = "ok"

\* a task with a manifest of MaxEntries entries carried through to reportCompleted
C5_Witness ==
  \E w \in Workers :
    /\ Len(fetched_manifest[w]) = MaxEntries
    /\ Len(Chain(w)) = Len(FullChain(MaxEntries))
    /\ Failed(w, "reportCompleted", "ok")

(* ------------------------------- C6 ------------------------------------ *)
\* validation of the claimed task has failed
ValidationFailed(w) ==
  \/ Failed(w, "validate_task", "TaskVerificationError")
  \/ Failed(w, "validate_task", "ValidationError")
\* the calls of reportException name the run of the message and the reason
ReportedMalformed(w) ==
  \A k \in At(w, "reportException") :
    /\ log[w][k].arg = "malformed-payload"
    /\ log[w][k].run = <<body[w].taskId, LastRunId(body[w])>>

\* C6 as stated: once validation has failed and reportException has been
\* called, it was called exactly once, with the run and "malformed-payload",
\* no manifest fetch, download, token request, signing, artifact creation or
\* reportCompleted has happened, and the message is acknowledged or about to be.
C6_Original ==
  \A w \in Workers :
    (ValidationFailed(w) /\ pc[w] # "reportException") =>
      /\ Times(w, "reportException") = 1
      /\ ReportedMalformed(w)
      /\ \A op \in SignOps \cup {"reportCompleted"} : ~Called(w, op)
      /\ pc[w] \in {"ack", "returned"}

\* C6 as amended: once validation has failed, reportException is the next
\* call; it is called exactly once, with the run and "malformed-payload"; no
\* manifest fetch, download, token request, signing, artifact creation or
\* reportCompleted happens; and the message is acknowledged if reportException
\* returns, while an exception raised by reportException leaves
\* process_message with the message unacknowledged.
C6_ValidationFailureReported ==
  \A w \in Workers :
    ValidationFailed(w) =>
      /\ \A op \in SignOps \cup {"reportCompleted"} : ~Called(w, op)
      /\ ReportedMalformed(w)
      /\ pc[w] \in {"reportException", "ack", "returned", "raised"}
      /\ pc[w] = "reportException" => ~Called(w, "reportException")
      /\ pc[w] # "reportException" => Times(w, "reportException") = 1
      /\ pc[w] \in {"ack", "returned"} => Failed(w, "reportException", "ok")
      /\ pc[w] = "returned" => Times(w, "ack") = 1
      /\ pc[w] = "raised" => ~Failed(w, "reportException", "ok") /\ ~Called(w, "ack")

\* a task with an unsupported scope, reported and acknowledged
C6_Witness ==
  \E w \in Workers :
    /\ Failed(w, "validate_task", "TaskVerificationError")
    /\ ~(task[w].scopes \subseteq SupportedScopes)
    /\ Failed(w, "reportException", "ok")
    /\ pc[w] = "returned"

(* ------------------------------- C7 ------------------------------------ *)
\* the artifacts created for the run, in order of creation
Artifacts(w) ==
  LET made == SelectSeq(log[w], LAMBDA e : e.op = "createArtifact" /\ e.res = "ok")
  IN [k \in 1..Len(made) |-> made[k].arg]
\* the artifacts of a task with manifest m
ExpectedArtifacts(m) ==
  [k \in 1..(Len(m) + 1) |->
     IF k <= Len(m) THEN "public/env/" \o m[k].mar ELSE "public/env/manifest.json"]
\* every step of the chain before reportCompleted has succeeded
AllSucceeded(w) ==
  LET c == SelectSeq(Chain(w), LAMBDA e : e.op # "reportCompleted")
      full == FullChain(Len(fetched_manifest[w]))
  IN /\ Called(w, "get_manifest")
     /\ Len(c) = Len(full) - 1
     /\ \A k \in 1..Len(c) : <<c[k].op, c[k].i>> = full[k] /\ c[k].res = "ok"

\* C7: reportCompleted is called at most once per message; it is called if
\* and only if the claim, the validation, the manifest fetch, every entry's
\* download, checksum verification, token acquisition, signing and upload, and
\* the manifest upload all succeeded; and when it is called exactly N+1
\* artifacts have been created, public/env/<filename> for each entry in
\* manifest order and public/env/manifest.json last.
C7_CompletedIffAllSucceeded ==
  \A w \in Workers :
    /\ Times(w, "reportCompleted") <= 1
    /\ Called(w, "reportCompleted") =>
         /\ AllSucceeded(w)
         /\ Artifacts(w) = ExpectedArtifacts(fetched_manifest[w])
         /\ Len(Artifacts(w)) = Len(signing_manifest[w]) + 1
    /\ (AllSucceeded(w) /\ pc[w] # "reportCompleted") => Called(w, "reportCompleted")

\* a single-entry task: two artifacts and one reportCompleted
C7_Witness ==
  \E w \in Workers :
    /\ Len(fetched_manifest[w]) = 1
    /\ Times(w, "reportCompleted") = 1
    /\ Failed(w, "reportCompleted", "ok")
    /\ Len(Artifacts(w)) = 2
    /\ pc[w] = "returned"

(* ------------------------------- C8 ------------------------------------ *)
\* the download of entry i hashed to something else than the entry declares
Mismatch(w, i) ==
  \E k \in At(w, "checksum") :
    /\ log[w][k].i = i
    /\ i <= Len(fetched_manifest[w])
    /\ log[w][k].arg # fetched_manifest[w][i].hash
\* an effect of operation op for manifest position i
CalledFor(w, op, i) == \E k \in At(w, op) : log[w][k].i = i

\* C8 as stated: once the download of an entry, at any position, has hashed
\* to something else than its declared checksum, no artifact has been uploaded
\* for the task (no file artifact, no manifest artifact), no token is requested
\* and the signing tool is not run for that file, its working directory is
\* removed, and reportCompleted is not called.
C8_Original ==
  \A w \in Workers : \A i \in 1..MaxEntries :
    Mismatch(w, i) =>
      /\ ~Called(w, "createArtifact")
      /\ ~Called(w, "putFile")
      /\ ~CalledFor(w, "get_token", i)
      /\ ~CalledFor(w, "signtool", i)
      /\ ~work_dirs[w][i].exists
      /\ ~Called(w, "reportCompleted")

\* C8 as amended: once the download of the entry at position i has hashed to
\* something else than its declared checksum, the task is aborted with a
\* checksum-mismatch error: the artifacts created are exactly those of the
\* i-1 entries before it, uploaded before the mismatch, and no artifact is
\* created for that file, for a later entry or for the manifest; no token is
\* requested and the signing tool is not run for that file; its working
\* directory is removed; reportCompleted is not called.
C8_MismatchAborts ==
  \A w \in Workers : \A i \in 1..MaxEntries :
    Mismatch(w, i) =>
      /\ exc[w].type = "ChecksumMismatchError"
      /\ Work(w)[Len(Work(w))].op = "checksum"
      /\ Work(w)[Len(Work(w))].res = "ChecksumMismatchError"
      /\ Artifacts(w) = [k \in 1..(i - 1) |-> "public/env/" \o fetched_manifest[w][k].mar]
      /\ \A j \in i..(MaxEntries + 1) :
           ~CalledFor(w, "createArtifact", j) /\ ~CalledFor(w, "putFile", j)
      /\ ~CalledFor(w, "get_token", i)
      /\ ~CalledFor(w, "signtool", i)
      /\ Len(work_dirs[w]) = i
      /\ ~work_dirs[w][i].exists
      /\ ~work_dirs[w][i].token
      /\ ~Called(w, "reportCompleted")
      /\ pc[w] \in {"ack", "returned"}

\* a mismatch at the last position of a manifest of MaxEntries entries, after
\* the entries before it were signed and uploaded
C8_Witness ==
  \E w \in Workers :
    /\ Mismatch(w, MaxEntries)
    /\ Len(Artifacts(w)) = MaxEntries - 1
    /\ pc[w] = "returned"

(* ------------------------------- C9 ------------------------------------ *)
\* the file of entry i was uploaded by position k of the record
UploadedBy(w, i, k) ==
  \E j \in 1..(k - 1) :
    /\ log[w][j].op = "putFile" /\ log[w][j].i = i /\ log[w][j].res = "ok"

\* C9 as stated: for an entry whose checksum verified, the file has been
\* uploaded as an artifact before the signing step completes: when the token
\* acquisition or the signing tool has ended, successfully or not, an artifact
\* for that file exists.
C9_Original ==
  \A w \in Workers :
    \A k \in 1..Len(log[w]) :
      (log[w][k].op \in {"get_token", "signtool"}) => UploadedBy(w, log[w][k].i, k)

\* C9 as amended: for an entry whose checksum verified, the file is uploaded
\* as an artifact under its own name only after the signing tool has signed
\* it: every artifact creation for a file follows the successful signing of
\* that file and uploads the signed content, and no artifact for the file
\* exists when token acquisition or the signing tool has failed.
C9_UploadAfterSigning ==
  \A w \in Workers :
    /\ \A k \in At(w, "createArtifact") :
         log[w][k].i <= Len(fetched_manifest[w]) =>
           /\ \E j \in 1..(k - 1) :
                /\ log[w][j].op = "signtool"
                /\ log[w][j].i = log[w][k].i
                /\ log[w][j].res = "ok"
           /\ log[w][k].arg = "public/env/" \o fetched_manifest[w][log[w][k].i].mar
           /\ work_dirs[w][log[w][k].i].file \in {"A.signed", "B.signed"}
    /\ \A k \in 1..Len(log[w]) :
         (log[w][k].op \in {"get_token", "signtool"} /\ log[w][k].res # "ok") =>
           /\ ~CalledFor(w, "createArtifact", log[w][k].i)
           /\ ~CalledFor(w, "putFile", log[w][k].i)

\* the signing tool failed on a file whose checksum verified: nothing uploaded
C9_Witness ==
  \E w \in Workers :
    /\ Failed(w, "checksum", "ok")
    /\ Failed(w, "signtool", "ErrorReturnCode")
    /\ Artifacts(w) = <<>>
    /\ pc[w] = "returned"

(* ------------------------------- C10 ----------------------------------- *)
\* C10: get_token succeeds whenever, in each of its passes, at least one
\* server of the pool answers a token request with a non-empty body, whatever
\* the other servers answer and whatever the order of the shuffle: it does not
\* fail while a server was ready to give a token in every pass; and within a
\* pass the servers are contacted one at a time in the shuffled order, up to
\* the first that returns a non-empty body.
C10_TokenWheneverOffered ==
  \A w \in Workers :
    /\ (\E k \in At(w, "get_token") : log[w][k].res # "ok") => ~offered[w]
    /\ contacted[w] = SubSeq(signing_servers[w], 1, Len(contacted[w]))

(* ------------------------------- C11 ----------------------------------- *)
\* the call of get_token for the current entry has ended
TokenCallEnded(w) == \E k \in At(w, "get_token") : log[w][k].i = idx[w]
\* a pass that contacted every server of the pool exactly once
FullPass(w) ==
  /\ contacted[w] = signing_servers[w]
  /\ Len(contacted[w]) = NumServers
  /\ {contacted[w][j] : j \in 1..Len(contacted[w])} = Servers

\* C11: when every signing server answers every token request with an empty
\* body, every pass of get_token contacts every server of the pool exactly
\* once, the call ends after exactly TokenAttempts passes with a
\* SigningServerError, no token file is written, signtool is not invoked, no
\* artifact is uploaded for that file, no manifest artifact is created,
\* neither reportCompleted nor reportException is called, and the message is
\* acknowledged.
C11_AllEmptyExhausts ==
  \A w \in Workers :
    /\ (only_empty[w] /\ first_hit[w] # NoHit) => FullPass(w)
    /\ (only_empty[w] /\ TokenCallEnded(w)) =>
         /\ attempts[w] = TokenAttempts
         /\ FullPass(w)
         /\ \A k \in At(w, "get_token") :
              log[w][k].i = idx[w] => log[w][k].res = "SigningServerError"
         /\ exc[w].type = "SigningServerError"
         /\ ~work_dirs[w][idx[w]].token
         /\ ~CalledFor(w, "signtool", idx[w])
         /\ ~CalledFor(w, "createArtifact", idx[w])
         /\ ~CalledFor(w, "putFile", idx[w])
         /\ ~\E k \in At(w, "createArtifact") : log[w][k].arg = ManifestArtifact
         /\ ~Called(w, "reportCompleted")
         /\ ~Called(w, "reportException")
         /\ pc[w] \in {"ack", "returned"}
         /\ pc[w] = "returned" => Times(w, "ack") = 1

\* the second entry of a manifest met only empty answers: ten passes, the
\* first entry's artifact stays, the message is acknowledged
C11_Witness ==
  \E w \in Workers :
    /\ only_empty[w]
    /\ TokenCallEnded(w)
    /\ idx[w] = 2
    /\ attempts[w] = TokenAttempts
    /\ pc[w] = "returned"

(* ------------------------------- C12 ----------------------------------- *)
\* the calls of op for entry i (0 and beyond the manifest: not per entry)
TimesFor(w, op, i) == Cardinality({k \in At(w, op) : log[w][k].i = i})
\* where a retried call waits for, or is in, its next attempt
RetryPcs == {"get_manifest", "get_token", "token_loop"}
\* the retried call gave up: the exception of its last attempt is the one raised
GaveUp(w, op, max) ==
  (\E k \in At(w, op) : log[w][k].res # "ok" /\ (op = "get_token" => log[w][k].i = idx[w])) =>
    /\ attempts[w] = max
    /\ exc[w] = last_exc[w]
    /\ exc[w] # NoExc
    /\ log[w][Len(Work(w))].op = op
    /\ log[w][Len(Work(w))].res = ExcName(exc[w])
C12_State ==
  \A w \in Workers :
    /\ attempts[w] <= ManifestAttempts
    /\ attempts[w] <= TokenAttempts
    /\ GaveUp(w, "get_manifest", ManifestAttempts)
    /\ GaveUp(w, "get_token", TokenAttempts)
    /\ Times(w, "claimTask") <= 1
    /\ Times(w, "get_manifest") <= 1
    /\ \A i \in 0..(MaxEntries + 1) :
         \A op \in {"get_token", "signtool", "createArtifact", "putFile"} :
           TimesFor(w, op, i) <= 1
\* one attempt of a retried call: it succeeds and the call is over, or it
\* fails and is retried, or it is the last one and its exception is raised
C12_Attempt(w) ==
  attempts'[w] = attempts[w] + 1 =>
    \/ /\ Len(log'[w]) = Len(log[w]) + 1
       /\ log'[w][Len(log'[w])].res = "ok"
       /\ pc'[w] \notin RetryPcs
       /\ last_exc'[w] = last_exc[w]
    \/ /\ log'[w] = log[w]
       /\ last_exc'[w] # NoExc
       /\ attempts'[w] < TokenAttempts
       /\ pc'[w] \in RetryPcs
    \/ /\ Len(log'[w]) = Len(log[w]) + 1
       /\ last_exc'[w] # NoExc
       /\ exc'[w] = last_exc'[w]
       /\ attempts'[w] = TokenAttempts
       /\ pc'[w] \notin RetryPcs

\* C12: the manifest fetch and the token acquisition are attempted at most 10
\* times per call, stop at the first attempt that succeeds, and raise the
\* exception of the last attempt when all 10 fail; claimTask, every
\* createArtifact, every upload and every run of the signing tool happen at
\* most once per occurrence and are never repeated.
C12_BoundedRetries == [](C12_State) /\ [][\A w \in Workers : C12_Attempt(w)]_vars

\* the manifest fetch failed ten times, the last time on the connection
C12_Witness ==
  \E w \in Workers :
    /\ Failed(w, "get_manifest", "ConnectionError")
    /\ attempts[w] = ManifestAttempts
    /\ exc[w] = last_exc[w]
    /\ pc[w] = "returned"

(* ------------------------------- C13 ----------------------------------- *)
\* the manifest artifact was uploaded
ManifestUploaded(w) ==
  \E k \in At(w, "putFile") : log[w][k].arg = ManifestArtifact /\ log[w][k].res = "ok"

\* C13: the uploaded public/env/manifest.json has as many entries as the
\* fetched manifest, in the same order; each entry keeps its file reference
\* and its other fields, and its hash and size are those computed from the
\* signed file of the same entry, which is the verified download after
\* signing.
C13_ManifestRewritten ==
  \A w \in Workers :
    ManifestUploaded(w) =>
      /\ Len(uploaded_manifest[w]) = Len(fetched_manifest[w])
      /\ Len(work_dirs[w]) = Len(fetched_manifest[w])
      /\ \A i \in 1..Len(fetched_manifest[w]) :
           LET f == work_dirs[w][i].file IN
             /\ DOMAIN uploaded_manifest[w][i] = DOMAIN fetched_manifest[w][i]
             /\ uploaded_manifest[w][i].mar = fetched_manifest[w][i].mar
             /\ \E c \in Downloads :
                  /\ get_hash(c) = fetched_manifest[w][i].hash
                  /\ f = Signed(c)
             /\ \E k \in At(w, "signtool") : log[w][k].i = i /\ log[w][k].res = "ok"
             /\ uploaded_manifest[w][i].hash = get_hash(f)
             /\ uploaded_manifest[w][i].size = getsize(f)

\* a manifest of two different files was signed and uploaded, each entry with
\* the hash and size of its own signed file
C13_Witness ==
  \E w \in Workers :
    /\ ManifestUploaded(w)
    /\ Len(fetched_manifest[w]) = 2
    /\ fetched_manifest[w][1].mar # fetched_manifest[w][2].mar
    /\ uploaded_manifest[w][2].hash = get_hash(Signed("B"))
    /\ uploaded_manifest[w][2].size # fetched_manifest[w][2].size

(* ------------------------------- C14 ----------------------------------- *)
\* the message failed, and not in the validation of the task
OtherFailure(w) == exc[w] # NoExc /\ ~ValidationFailed(w)

\* C14 as stated: reportException is called only when validation failed;
\* after any other failure neither reportException nor reportCompleted has
\* been called; and the two are never both called for one message.
C14_Original ==
  \A w \in Workers :
    /\ Called(w, "reportException") => ValidationFailed(w)
    /\ OtherFailure(w) =>
         /\ ~Called(w, "reportException")
         /\ ~Called(w, "reportCompleted")
    /\ ~(Called(w, "reportException") /\ Called(w, "reportCompleted"))

\* C14: reportException is called only when validation failed; after any
\* other failure reportException has not been called and the task is not
\* resolved, and reportCompleted has been called only if it is itself the call
\* that failed; the two are never both called for one message.
C14_ReportOnlyOnValidation ==
  \A w \in Workers :
    /\ Called(w, "reportException") => ValidationFailed(w)
    /\ OtherFailure(w) =>
         /\ ~Called(w, "reportException")
         /\ ~Failed(w, "reportCompleted", "ok")
         /\ Called(w, "reportCompleted") =>
              /\ Work(w)[Len(Work(w))].op = "reportCompleted"
              /\ Work(w)[Len(Work(w))].res = ExcName(exc[w])
    /\ ~(Called(w, "reportException") /\ Called(w, "reportCompleted"))

\* the upload of a signed file failed: no report of either kind, the message
\* is acknowledged
C14_Witness ==
  \E w \in Workers :
    /\ OtherFailure(w)
    /\ Failed(w, "putFile", "HTTPError")
    /\ ~Called(w, "reportException")
    /\ ~Called(w, "reportCompleted")
    /\ pc[w] = "returned"

(* ------------------------------- C15 ----------------------------------- *)
\* get_token returned for entry i, having written the token file
TokenFor(w, i) == \E k \in At(w, "get_token") : log[w][k].i = i /\ log[w][k].res = "ok"

\* C15: every run of the signing tool is immediately preceded by a successful
\* get_token call of its own entry, which wrote the token into that entry's
\* own working directory; every entry has its own call and its own token file,
\* the tool runs with the token of the directory of the entry it signs, and it
\* does not run when get_token failed.
C15_FreshTokenPerEntry ==
  \A w \in Workers :
    /\ \A k \in At(w, "signtool") :
         /\ k > 1
         /\ log[w][k - 1].op = "get_token"
         /\ log[w][k - 1].i = log[w][k].i
         /\ log[w][k - 1].res = "ok"
         /\ work_dirs[w][log[w][k].i].token
    /\ pc[w] = "signtool" =>
         /\ CurDir(w) = idx[w]
         /\ work_dirs[w][CurDir(w)].token
         /\ log[w][Len(log[w])] = Ev(w, "get_token", idx[w], Entry(w).mar, "ok")
    /\ \A i \in 1..Len(work_dirs[w]) :
         /\ work_dirs[w][i].token <=> TokenFor(w, i)
         /\ TimesFor(w, "get_token", i) <= 1
         /\ (CalledFor(w, "get_token", i) /\ ~TokenFor(w, i)) => ~CalledFor(w, "signtool", i)

\* the second entry is signed with the token written to its own directory
\* after the first entry was signed with its own
C15_Witness ==
  \E w \in Workers :
    /\ TokenFor(w, 1)
    /\ TokenFor(w, 2)
    /\ \E k \in At(w, "signtool") : log[w][k].i = 2 /\ log[w][k].res = "ok"
    /\ work_dirs[w][1].token
    /\ work_dirs[w][2].token

(* ------------------------------- C16 ----------------------------------- *)
\* the pool as __init__ stored it
ConfiguredServers == [i \in 1..NumServers |-> i]

\* C16: the configuration held by the consumer is read-only after startup:
\* whatever messages have been processed, token acquisitions included, the
\* pool of signing servers is the configured one, the same servers in the
\* same order.
C16_PoolAsConfigured ==
  \A w \in Workers : signing_servers[w] = ConfiguredServers

(* ------------------------------- C17 ----------------------------------- *)
\* the calls of the task-tracking client inside the try block, after claimTask
AfterClaimOps == {"task", "createArtifact", "reportCompleted"}
\* the last call recorded for the message, the acknowledgement aside
LastWork(w) == Work(w)[Len(Work(w))]

\* C17: a 409 from the task fetch, from a createArtifact or from
\* reportCompleted, after a successful claim, is handled like a claim
\* conflict: that call is the last one made for the message, reportException
\* is not called, no exception leaves process_message, and the message is
\* acknowledged.
C17_ConflictAnywhere ==
  \A w \in Workers :
    \A op \in AfterClaimOps :
      Failed(w, op, "Rest409") =>
        /\ Failed(w, "claimTask", "ok")
        /\ LastWork(w).op = op
        /\ LastWork(w).res = "Rest409"
        /\ Len(Work(w)) >= Len(log[w]) - 1
        /\ ~Called(w, "reportException")
        /\ exc[w] = RestFailure(Conflict)
        /\ pc[w] \in {"ack", "returned"}
        /\ pc[w] = "returned" =>
             /\ Times(w, "ack") = 1
             /\ log[w][Len(log[w])].op = "ack"

\* createArtifact of the second file answered 409 after the first file's
\* artifact was uploaded; the message is acknowledged
C17_Witness ==
  \E w \in Workers :
    /\ Failed(w, "createArtifact", "Rest409")
    /\ LastWork(w).i = 2
    /\ \E k \in At(w, "putFile") : log[w][k].i = 1 /\ log[w][k].res = "ok"
    /\ pc[w] = "returned"

(* ------------------------------- C18 ----------------------------------- *)
\* C18: a pass of get_token contacts the servers in the shuffled order up to
\* the first whose answer is not an empty body; when that answer is an HTTP
\* error (or a failure of the transport) the pass ends there with that error,
\* the servers after it are not contacted, no token is written, and the pass
\* is one of the TokenAttempts attempts; when the last attempt ends this way
\* the exception that leaves get_token is that error, not SigningServerError.
C18_ErrorEndsPass ==
  \A w \in Workers :
    /\ first_hit[w] # NoHit =>
         /\ contacted[w] = SubSeq(signing_servers[w], 1, first_hit[w].pos)
         /\ attempts[w] \in 1..TokenAttempts
    /\ first_hit[w].kind = "http_error" =>
         /\ Len(contacted[w]) = first_hit[w].pos
         /\ last_exc[w] = Exc("HTTPError", 0)
         /\ ~work_dirs[w][CurDir(w)].token
         /\ pc[w] = "get_token" => attempts[w] < TokenAttempts
         /\ pc[w] # "get_token" =>
              /\ TokenCallEnded(w)
              /\ attempts[w] = TokenAttempts
              /\ exc[w] = Exc("HTTPError", 0)
              /\ LastWork(w).op = "get_token"
              /\ LastWork(w).res = "HTTPError"
              /\ ~CalledFor(w, "signtool", idx[w])

\* the tenth pass ended at its first server with an HTTP error, after a pass
\* of empty answers only: HTTPError leaves get_token, the second server was
\* not contacted in the last pass
C18_Witness ==
  \E w \in Workers :
    /\ first_hit[w] = [kind |-> "http_error", pos |-> 1]
    /\ Len(contacted[w]) = 1
    /\ attempts[w] = TokenAttempts
    /\ exc[w] = Exc("HTTPError", 0)
    /\ pc[w] = "returned"

(* ------------------------------- C19 ----------------------------------- *)
\* C19: every manifest entry that is downloaded gets a working directory of
\* its own, and a working directory is removed if and only if the checksum of
\* its entry did not match: after a failed download, a failed token
\* acquisition or signing, a failed upload or a successful task, all the
\* directories created for the message, and the temporary manifest file once
\* written, still exist when process_message returns.
C19_DirsKeptUnlessMismatch ==
  \A w \in Workers :
    /\ Len(work_dirs[w]) = Times(w, "download")
    /\ \A i \in 1..Len(work_dirs[w]) :
         /\ TimesFor(w, "download", i) = 1
         /\ work_dirs[w][i].exists <=> ~Mismatch(w, i)
    /\ (\E k \in At(w, "createArtifact") : log[w][k].arg = ManifestArtifact) =>
         manifest_file[w]
    /\ Failed(w, "reportCompleted", "ok") =>
         /\ manifest_file[w]
         /\ Len(work_dirs[w]) = Len(fetched_manifest[w])
         /\ \A i \in 1..Len(work_dirs[w]) : work_dirs[w][i].exists

\* the checksum of the second entry did not match: its directory is gone, the
\* directory of the first entry is still there after the return
C19_Witness ==
  \E w \in Workers :
    /\ Len(work_dirs[w]) = 2
    /\ Mismatch(w, 2)
    /\ work_dirs[w][1].exists
    /\ ~work_dirs[w][2].exists
    /\ pc[w] = "returned"

(* ------------------------------- C20 ----------------------------------- *)
\* the call of reportException raised
ReportFailed(w) == \E k \in At(w, "reportException") : log[w][k].res # "ok"

\* C20: when validation failed and reportException itself raises, whatever it
\* raises, a 409 included, the exception leaves process_message: it is
\* handled by no clause of the try statement, the message is not
\* acknowledged, and nothing more is done for the message.
C20_ReportFailureEscapes ==
  \A w \in Workers :
    ReportFailed(w) =>
      /\ ValidationFailed(w)
      /\ pc[w] = "raised"
      /\ ~Called(w, "ack")
      /\ exc[w] \in TcFailures
      /\ Times(w, "reportException") = 1
      /\ log[w][Len(log[w])].op = "reportException"
      /\ log[w][Len(log[w])].res = ExcName(exc[w])

\* reportException answered 409 for a task that failed validation: the
\* conflict leaves process_message, the message is not acknowledged
C20_Witness ==
  \E w \in Workers :
    /\ ValidationFailed(w)
    /\ Failed(w, "reportException", "Rest409")
    /\ exc[w] = RestFailure(Conflict)
    /\ pc[w] = "raised"
    /\ ~Called(w, "ack")
====
